---- MODULE Spec2Model ----
(***************************************************************************)
(* A model of dmap_maker.py: the batch driver (batch_process_videos), the  *)
(* per-video loop (process_video) with its handles, the shape pipeline of  *)
(* process_frame, the resize stage built by get_transform and the min-max  *)
(* normalisation of visualize_depth.                                       *)
(*                                                                         *)
(* File names and paths are sequences of one-character strings, so that    *)
(* lower(), endswith(), the 'processed_' prefix and os.path.join are       *)
(* computed character by character.                                        *)
(***************************************************************************)
EXTENDS Integers, Sequences, FiniteSets, TLC

\* ------------------------------------------------------------------ bounds
\* Most files os.listdir returns.
MaxFiles == 2
\* Most frames a stream delivers, and largest frame count a container reports.
MaxFrames == 2
\* Largest frame width and height of a video of the batch.
MaxDim == 2
\* Largest frame width and height given to the resize stage alone.
MaxSide == 40
\* Most pixels of a depth estimate, and its largest value.
MaxPix == 3
MaxDepth == 2
\* Most times visualize_depth is applied to one depth estimate.
MaxCalls == 2

\* ------------------------------------------------------------- characters
ToLower ==
    ("A" :> "a") @@ ("B" :> "b") @@ ("I" :> "i") @@ ("M" :> "m") @@
    ("O" :> "o") @@ ("P" :> "p") @@ ("V" :> "v")

\* str.lower(), character by character.
lower(s) ==
    [i \in 1..Len(s) |-> IF s[i] \in DOMAIN ToLower THEN ToLower[s[i]] ELSE s[i]]

\* str.endswith(suffix) for one suffix, and for a tuple of suffixes.
endswith1(s, suf) ==
    /\ Len(s) >= Len(suf)
    /\ SubSeq(s, Len(s) - Len(suf) + 1, Len(s)) = suf

endswith(s, sufs) ==
    \E k \in 1..Len(sufs) : endswith1(s, sufs[k])

\* The tuple of line 47.
video_extensions ==
    << <<".", "m", "p", "4">>, <<".", "a", "v", "i">>, <<".", "m", "o", "v">> >>

\* os.path.join of a folder and a name.
path_join(a, b) ==
    IF b # <<>> /\ b[1] = "/" THEN b
    ELSE IF a = <<>> \/ a[Len(a)] = "/" THEN a \o b
    ELSE a \o <<"/">> \o b

\* f"processed_{filename}"
processed_name(filename) ==
    <<"p", "r", "o", "c", "e", "s", "s", "e", "d", "_">> \o filename

input_folder == <<"i", "n">>
output_folder == <<"o", "u", "t">>

\* The names a directory entry can have.
FileNames ==
    { <<"a", ".", "m", "p", "4">>,
      <<"B", ".", "A", "V", "I">>,
      <<"c", ".", "M", "o", "v">>,
      <<"d", ".", "t", "x", "t">>,
      <<"m", "p", "4">> }

\* The listings os.listdir can return: distinct names, in any order.
Listings ==
    { l \in UNION { [1..n -> FileNames] : n \in 0..MaxFiles } :
        \A i, j \in DOMAIN l : i # j => l[i] # l[j] }

\* The test of line 47 without lower().
is_video_case_sensitive(f) == endswith(f, video_extensions)

is_video(f) == endswith(lower(f), video_extensions)

\* The list comprehension of line 47.
filter_videos(l) == SelectSeq(l, is_video)

video_path_of(filename) == path_join(input_folder, filename)
output_video_path_of(filename) == path_join(output_folder, processed_name(filename))

\* ------------------------------------------------------- the resize stage
\* The arguments get_transform gives to Resize.
get_transform_no_multiple ==
    [width |-> 532, height |-> 532, keep_aspect_ratio |-> TRUE,
     ensure_multiple_of |-> 1, resize_method |-> "lower_bound"]

get_transform ==
    [width |-> 532, height |-> 532, keep_aspect_ratio |-> TRUE,
     ensure_multiple_of |-> 14, resize_method |-> "lower_bound"]

\* round(n / d) to the nearest integer, halves to the even one (numpy's round).
RoundHalfEven(n, d) ==
    LET q == n \div d
        r == n % d
    IN  IF 2 * r < d THEN q
        ELSE IF 2 * r > d THEN q + 1
        ELSE IF q % 2 = 0 THEN q ELSE q + 1

Ceil(n, d) == (n + d - 1) \div d

\* Resize.constrain_to_multiple_of for x = n / d and a lower bound min_val:
\* the nearest multiple, and the next multiple up when that is below min_val.
constrain_to_multiple_of(t, n, d, min_val) ==
    LET m == t.ensure_multiple_of
        y == RoundHalfEven(n, d * m) * m
    IN  IF y < min_val THEN Ceil(n, d * m) * m ELSE y

\* Resize.get_size, method lower_bound with the aspect ratio kept: both axes
\* are scaled by the larger of width/w and height/h, so that the shorter side
\* reaches the target, and each is then snapped. The scale is the fraction
\* sn / sd. Result: <<new_width, new_height>>.
get_size(t, w, h) ==
    LET fit_width == t.width * h > t.height * w
        sn == IF fit_width THEN t.width ELSE t.height
        sd == IF fit_width THEN w ELSE h
    IN  << constrain_to_multiple_of(t, sn * w, sd, t.width),
           constrain_to_multiple_of(t, sn * h, sd, t.height) >>

\* ----------------------------------------------------- shapes of a frame
\* An image is known by its shape, a tuple of axis lengths as numpy has it.

\* numpy's squeeze(): every axis of length 1 is dropped.
NotOne(n) == n # 1
squeeze(shape) == SelectSeq(shape, NotOne)

\* cv2.resize(src, dsize): dsize is (width, height), the result has height
\* rows and width columns, and the other axes of src.
cv2_resize(shape, dsize) == <<dsize[2], dsize[1]>> \o SubSeq(shape, 3, Len(shape))

\* transform_image: cvtColor and the division keep the shape (H, W, 3); Resize
\* gives (H', W', 3); PrepareForNet transposes to (3, H', W'); unsqueeze(0).
transform_image(frame) ==
    LET size == get_size(get_transform, frame.shape[2], frame.shape[1])
        resized == cv2_resize(frame.shape, size)
    IN  [shape |-> <<1, resized[3], resized[1], resized[2]>>]

\* estimate_depth: the model maps a batch (B, 3, H', W') to depths (B, H', W').
estimate_depth(image) ==
    [shape |-> <<image.shape[1], image.shape[3], image.shape[4]>>]

\* visualize_depth, as far as the shape goes: squeeze, then elementwise.
visualize_depth_shape(depth) == [shape |-> squeeze(depth.shape)]

\* apply_smoothing: GaussianBlur keeps the shape.
apply_smoothing(depth_grayscale) == depth_grayscale

resize_depth_to_frame_swapped(depth_grayscale, frame) ==
    [shape |-> cv2_resize(depth_grayscale.shape, <<frame.shape[1], frame.shape[2]>>)]

resize_depth_to_frame(depth_grayscale, frame) ==
    [shape |-> cv2_resize(depth_grayscale.shape, <<frame.shape[2], frame.shape[1]>>)]

process_frame(frame) ==
    LET image == transform_image(frame)
        depth == estimate_depth(image)
        depth_grayscale == visualize_depth_shape(depth)
        depth_grayscale_smoothed == apply_smoothing(depth_grayscale)
    IN  resize_depth_to_frame(depth_grayscale_smoothed, frame)

\* ------------------------------------------------- the values of a depth
Min(S) == CHOOSE x \in S : \A y \in S : x <= y
Max(S) == CHOOSE x \in S : \A y \in S : x >= y
Range(f) == { f[i] : i \in DOMAIN f }

\* What astype(np.uint8) can give for a NaN: the conversion of a NaN to an
\* integer type is undefined, the value depends on the platform and on the
\* code path numpy takes for the element.
CastNaN == {0, 255}

\* visualize_depth on the values d of a depth estimate: the set of 8-bit
\* images it can return. With max = min every element is 0/0 = NaN.
visualize_depth(d) ==
    LET lo == Min(Range(d))
        hi == Max(Range(d))
    IN  IF hi = lo
        THEN [DOMAIN d -> CastNaN]
        ELSE { [i \in DOMAIN d |-> ((d[i] - lo) * 255) \div (hi - lo)] }

\* ------------------------------------------------------------------ state
VARIABLES
    listing,          \* what os.listdir(input_folder) returns
    video_files,      \* the filtered list of line 47
    idx,              \* position in video_files of the video being processed
    pc,               \* the statement about to run
    exc,              \* the exception being propagated, or "none"
    vids,             \* per video: its path, its handles, its frames read and written
    out_video,        \* the writer of line 60: its frame size, the frames handed to it
    src,              \* the opened stream: its properties and its frames left
    total_frames,     \* the local of line 61
    it,               \* iterations of the for loop of line 64 begun
    frame,            \* the local of line 65
    processed_frame,  \* the local of line 68
    window,           \* whether the preview window 'Depth Anywhere' is open
    sample,           \* resize stage alone: the input size <<w, h>>
    resized,          \* resize stage alone: the size it gives
    depth,            \* visualize_depth alone: the values of the depth
    grays             \* visualize_depth alone: the images returned so far

batch_vars ==
    <<listing, video_files, idx, pc, exc, vids, out_video, src, total_frames,
      it, frame, processed_frame, window>>
resize_vars == <<sample, resized>>
depth_vars == <<depth, grays>>
vars == <<batch_vars, resize_vars, depth_vars>>

NoFrame == [shape |-> <<>>]
NoSrc == [width |-> 0, height |-> 0, count |-> 0, avail |-> 0]
NoSize == <<>>

NoWriter == [size |-> NoSize, frames |-> <<>>]

\* A video nothing has touched yet.
NewVid ==
    [path |-> <<>>, cap |-> "none", read |-> 0, writer |-> "none",
     out_path |-> <<>>, written |-> 0, exit |-> "none"]

BatchInit ==
    /\ video_files = <<>>
    /\ idx = 0
    /\ pc = "listdir"
    /\ exc = "none"
    /\ vids = <<>>
    /\ out_video = NoWriter
    /\ src = NoSrc
    /\ total_frames = 0
    /\ it = 0
    /\ frame = NoFrame
    /\ processed_frame = NoFrame
    /\ window = FALSE

Init ==
    /\ listing \in Listings
    /\ BatchInit
    /\ sample = NoSize /\ resized = NoSize
    /\ depth = <<>> /\ grays = <<>>

\* ------------------------------------------------- batch_process_videos
\* Line 47.
ListDir ==
    /\ pc = "listdir"
    /\ video_files' = filter_videos(listing)
    /\ vids' = [i \in 1..Len(filter_videos(listing)) |-> NewVid]
    /\ pc' = "for"
    /\ UNCHANGED <<resize_vars, depth_vars, out_video, listing, idx, exc,
                   src, total_frames, it, frame, processed_frame, window>>

\* Line 49, another file left: lines 50 to 52 call process_video.
ForNext ==
    /\ pc = "for"
    /\ idx < Len(video_files)
    /\ idx' = idx + 1
    /\ pc' = "capture"
    /\ UNCHANGED <<resize_vars, depth_vars, out_video, listing, video_files,
                   exc, vids, src, total_frames, it, frame, processed_frame,
                   window>>

\* Line 49, no file left: batch_process_videos returns.
ForEnd ==
    /\ pc = "for"
    /\ idx >= Len(video_files)
    /\ pc' = "done"
    /\ UNCHANGED <<resize_vars, depth_vars, out_video, listing, video_files,
                   idx, exc, vids, src, total_frames, it, frame,
                   processed_frame, window>>

\* ---------------------------------------------------------- process_video
\* Lines 56 and 57: the capture opens. The stream has a frame size, a frame
\* count its container reports and a number of frames it will deliver; the
\* reported count is an estimate and need not be the number delivered.
OpenOk ==
    /\ pc = "capture"
    /\ \E w, h \in 1..MaxDim, n, a \in 0..MaxFrames :
         src' = [width |-> w, height |-> h, count |-> n, avail |-> a]
    /\ vids' = [vids EXCEPT ![idx].path = video_path_of(video_files[idx]),
                            ![idx].cap = "open"]
    /\ pc' = "init_writer"
    /\ UNCHANGED <<resize_vars, depth_vars, out_video, listing, video_files,
                   idx, exc, total_frames, it, frame, processed_frame,
                   window>>

\* The failure to open caught per video: the batch goes on with the next file.
OpenFailCaught ==
    /\ pc = "capture"
    /\ vids' = [vids EXCEPT ![idx].path = video_path_of(video_files[idx]),
                            ![idx].cap = "failed",
                            ![idx].exit = "open_failed"]
    /\ pc' = "for"
    /\ UNCHANGED <<resize_vars, depth_vars, out_video, listing, video_files,
                   idx, exc, src, total_frames, it, frame, processed_frame,
                   window>>

\* Lines 56 to 58: the capture does not open, IOError leaves process_video
\* and, nothing catching it, batch_process_videos.
OpenFail ==
    /\ pc = "capture"
    /\ vids' = [vids EXCEPT ![idx].path = video_path_of(video_files[idx]),
                            ![idx].cap = "failed",
                            ![idx].exit = "open_failed"]
    /\ exc' = "IOError"
    /\ pc' = "aborted"
    /\ UNCHANGED <<resize_vars, depth_vars, out_video, listing, video_files,
                   idx, src, total_frames, it, frame, processed_frame,
                   window>>

\* initialize_video_writer: the size given to cv2.VideoWriter.
initialize_video_writer(cap) == <<cap.width, cap.height>>

\* Lines 60 and 61.
InitWriter ==
    /\ pc = "init_writer"
    /\ vids' = [vids EXCEPT ![idx].writer = "open",
                            ![idx].out_path = output_video_path_of(video_files[idx])]
    /\ out_video' = [size |-> initialize_video_writer(src), frames |-> <<>>]
    /\ total_frames' = src.count
    /\ it' = 0
    /\ pc' = "loop"
    /\ UNCHANGED <<resize_vars, depth_vars, listing, video_files, idx, exc,
                   src, frame, processed_frame, window>>

\* range(total_frames) of line 64: the iterations the for loop allows.
LoopBoundOneMore(n) == n + 1

LoopBound(n) == n

\* Line 64, the range has another value.
LoopNext ==
    /\ pc = "loop"
    /\ it < LoopBound(total_frames)
    /\ it' = it + 1
    /\ pc' = "read"
    /\ UNCHANGED <<resize_vars, depth_vars, out_video, listing, video_files,
                   idx, exc, vids, src, total_frames, frame, processed_frame,
                   window>>

\* Line 64, the range is exhausted: the loop ends without another read.
LoopEnd ==
    /\ pc = "loop"
    /\ it >= LoopBound(total_frames)
    /\ vids' = [vids EXCEPT ![idx].exit = "range"]
    /\ pc' = "finally"
    /\ UNCHANGED <<resize_vars, depth_vars, out_video, listing, video_files,
                   idx, exc, src, total_frames, it, frame, processed_frame,
                   window>>

\* Line 65, the stream delivers a frame, of the stream's height and width.
ReadOk ==
    /\ pc = "read"
    /\ vids[idx].read < src.avail
    /\ frame' = [shape |-> <<src.height, src.width, 3>>]
    /\ vids' = [vids EXCEPT ![idx].read = @ + 1]
    /\ pc' = "process"
    /\ UNCHANGED <<resize_vars, depth_vars, out_video, listing, video_files,
                   idx, exc, src, total_frames, it, processed_frame, window>>

\* Lines 65 to 67, the stream delivers nothing: break.
ReadFail ==
    /\ pc = "read"
    /\ vids[idx].read >= src.avail
    /\ frame' = NoFrame
    /\ vids' = [vids EXCEPT ![idx].exit = "exhausted"]
    /\ pc' = "finally"
    /\ UNCHANGED <<resize_vars, depth_vars, out_video, listing, video_files,
                   idx, exc, src, total_frames, it, processed_frame, window>>

\* Line 68 with the write of line 69 left out until after the poll.
ProcessFrameNoWrite ==
    /\ pc = "process"
    /\ processed_frame' = process_frame(frame)
    /\ pc' = "show"
    /\ UNCHANGED <<resize_vars, depth_vars, out_video, listing, video_files,
                   idx, exc, vids, src, total_frames, it, frame, window>>

\* Line 68.
ProcessFrame ==
    /\ pc = "process"
    /\ processed_frame' = process_frame(frame)
    /\ pc' = "write"
    /\ UNCHANGED <<resize_vars, depth_vars, out_video, listing, video_files,
                   idx, exc, vids, src, total_frames, it, frame, window>>

\* Line 69: the frame is handed to the writer.
Write ==
    /\ pc = "write"
    /\ out_video' = [out_video EXCEPT !.frames = Append(@, processed_frame.shape)]
    /\ vids' = [vids EXCEPT ![idx].written = @ + 1]
    /\ pc' = "show"
    /\ UNCHANGED <<resize_vars, depth_vars, listing, video_files, idx, exc,
                   src, total_frames, it, frame, processed_frame, window>>

\* Line 70.
Show ==
    /\ pc = "show"
    /\ window' = TRUE
    /\ pc' = "poll"
    /\ UNCHANGED <<resize_vars, depth_vars, out_video, listing, video_files,
                   idx, exc, vids, src, total_frames, it, frame,
                   processed_frame>>

\* Line 71, another key or none.
PollContinue ==
    /\ pc = "poll"
    /\ pc' = "loop"
    /\ UNCHANGED <<resize_vars, depth_vars, out_video, listing, video_files,
                   idx, exc, vids, src, total_frames, it, frame,
                   processed_frame, window>>

\* The quit key leaving the program instead of the loop.
PollQuitAbort ==
    /\ pc = "poll"
    /\ vids' = [vids EXCEPT ![idx].exit = "quit"]
    /\ exc' = "Quit"
    /\ pc' = "finally"
    /\ UNCHANGED <<resize_vars, depth_vars, out_video, listing, video_files,
                   idx, src, total_frames, it, frame, processed_frame, window>>

\* Lines 71 and 72, the quit key: break.
PollQuit ==
    /\ pc = "poll"
    /\ vids' = [vids EXCEPT ![idx].exit = "quit"]
    /\ pc' = "finally"
    /\ UNCHANGED <<resize_vars, depth_vars, out_video, listing, video_files,
                   idx, exc, src, total_frames, it, frame, processed_frame,
                   window>>

\* A statement of lines 68 to 71 raises (the model, the writer, the display).
Raise ==
    /\ pc \in {"process", "write", "show", "poll"}
    /\ exc' = "Error"
    /\ vids' = [vids EXCEPT ![idx].exit = "error"]
    /\ pc' = "finally"
    /\ UNCHANGED <<resize_vars, depth_vars, out_video, listing, video_files,
                   idx, src, total_frames, it, frame, processed_frame,
                   window>>

\* What leaving process_video does to the control: back to the for loop of the
\* batch, or out of the batch with the exception.
AfterProcessVideo == IF exc = "none" THEN "for" ELSE "aborted"

\* The finally block without the release of the writer.
FinallyNoWriterRelease ==
    /\ pc = "finally"
    /\ vids' = [vids EXCEPT ![idx].cap = "released"]
    /\ window' = FALSE
    /\ out_video' = NoWriter
    /\ src' = NoSrc
    /\ total_frames' = 0
    /\ it' = 0
    /\ frame' = NoFrame
    /\ processed_frame' = NoFrame
    /\ pc' = AfterProcessVideo
    /\ UNCHANGED <<resize_vars, depth_vars, listing, video_files, idx, exc>>

\* Lines 73 to 76, then process_video returns or the exception goes on; its
\* locals are gone.
Finally ==
    /\ pc = "finally"
    /\ vids' = [vids EXCEPT ![idx].cap = "released", ![idx].writer = "released"]
    /\ window' = FALSE
    /\ out_video' = NoWriter
    /\ src' = NoSrc
    /\ total_frames' = 0
    /\ it' = 0
    /\ frame' = NoFrame
    /\ processed_frame' = NoFrame
    /\ pc' = AfterProcessVideo
    /\ UNCHANGED <<resize_vars, depth_vars, listing, video_files, idx, exc>>

Next ==
    \/ ListDir
    \/ ForNext
    \/ ForEnd
    \/ OpenOk
    \/ OpenFail
    \/ InitWriter
    \/ LoopNext
    \/ LoopEnd
    \/ ReadOk
    \/ ReadFail
    \/ ProcessFrame
    \/ Write
    \/ Show
    \/ PollContinue
    \/ PollQuit
    \/ Raise
    \/ Finally

Spec == Init /\ [][Next]_vars

\* ------------------------------------------------ the resize stage alone
\* The frame sizes <<width, height>> given to the resize stage.
Sizes == (1..MaxSide) \X (1..MaxSide)

ResizeInit ==
    /\ listing = <<>>
    /\ BatchInit
    /\ sample \in Sizes /\ resized = NoSize
    /\ depth = <<>> /\ grays = <<>>

\* Resize.__call__ on an image of the size sample: the size it is resized to.
ApplyResize ==
    /\ sample # NoSize
    /\ resized = NoSize
    /\ resized' = get_size(get_transform, sample[1], sample[2])
    /\ UNCHANGED <<batch_vars, depth_vars, sample>>

ResizeNext == ApplyResize

SpecResize == ResizeInit /\ [][ResizeNext]_vars

\* ------------------------------------------------- visualize_depth alone
\* The depth estimates: up to MaxPix values, each in 0..MaxDepth.
Depths == UNION { [1..n -> 0..MaxDepth] : n \in 1..MaxPix }

DepthInit ==
    /\ listing = <<>>
    /\ BatchInit
    /\ sample = NoSize /\ resized = NoSize
    /\ depth \in Depths /\ grays = <<>>

\* One more frame with the depth estimate depth goes through visualize_depth.
VisualizeDepth ==
    /\ depth # <<>>
    /\ Len(grays) < MaxCalls
    /\ \E g \in visualize_depth(depth) : grays' = Append(grays, g)
    /\ UNCHANGED <<batch_vars, resize_vars, depth>>

DepthNext == VisualizeDepth

SpecDepth == DepthInit /\ [][DepthNext]_vars

\* ================================================================ claims
\* The program is outside process_video.
Outside == pc \in {"listdir", "for", "done", "aborted"}

\* process_video was left for video i by a return.
Returned(i) ==
    /\ vids[i].exit \in {"range", "exhausted", "quit"}
    /\ ~(i = idx /\ pc = "finally")

\* C1: whenever the program is outside process_video, however it was left
\* (frames exhausted, quit key, an error in the loop, the failure to open),
\* no capture and no writer of any video is open and the preview window is
\* closed; a capture that was opened has been released with its writer.
C1_HandlesReleasedOnEveryExit ==
    Outside =>
        /\ window = FALSE
        /\ out_video = NoWriter
        /\ \A i \in DOMAIN vids :
            /\ vids[i].cap # "open"
            /\ vids[i].writer # "open"
            /\ vids[i].cap = "released" <=> vids[i].writer = "released"
            /\ vids[i].exit \in {"range", "exhausted", "quit", "error"}
                   => vids[i].cap = "released"

\* An error raised after a frame was written and shown has left process_video.
C1_Witness ==
    /\ pc = "aborted"
    /\ exc = "Error"
    /\ vids[idx].written >= 1
    /\ vids[idx].cap = "released"
    /\ vids[idx].writer = "released"

\* C2: if the video at position i does not open, the batch is aborted by the
\* IOError at that position, no video after i has been opened or given an
\* output file, and process_video returned for every video before i.
C2_OpenFailureAbortsBatch ==
    \A i \in DOMAIN vids :
        vids[i].cap = "failed" =>
            /\ pc = "aborted"
            /\ exc = "IOError"
            /\ idx = i
            /\ vids[i].writer = "none" /\ vids[i].out_path = <<>>
            /\ \A j \in DOMAIN vids : j > i => vids[j] = NewVid
            /\ \A j \in DOMAIN vids : j < i =>
                /\ Returned(j)
                /\ vids[j].cap = "released"
                /\ vids[j].writer = "released"

\* The first of two videos did not open.
C2_Witness ==
    /\ Len(vids) >= 2
    /\ vids[1].cap = "failed"

\* The second video did not open, after the first was processed.
C2_WitnessLater ==
    /\ Len(vids) >= 2
    /\ vids[2].cap = "failed"
    /\ vids[1].written >= 1

\* C3, what holds in every state: a video ended by the quit key has its
\* handles released once process_video is left, no exception is pending, the
\* batch is not aborted at it; the batch is only ever aborted by an exception
\* of the video it is at, and when it is done every video was processed.
C3_State ==
    /\ \A i \in DOMAIN vids :
        vids[i].exit = "quit" =>
            /\ ~(pc = "aborted" /\ idx = i)
            /\ (i = idx /\ pc = "finally") => exc = "none"
            /\ Returned(i) =>
                /\ vids[i].cap = "released"
                /\ vids[i].writer = "released"
    /\ pc = "aborted" => vids[idx].exit \in {"open_failed", "error"}
    /\ pc = "done" =>
        \A i \in DOMAIN vids : Returned(i) /\ vids[i].out_path # <<>>

\* C3, what holds of every step: a video ended by the quit key has no frame
\* read or written afterwards, process_video returns to the for loop, and the
\* for loop then starts the next video if there is one.
C3_Step ==
    \A i \in DOMAIN vids :
        vids[i].exit = "quit" =>
            /\ vids'[i].read = vids[i].read
            /\ vids'[i].written = vids[i].written
            /\ (i = idx /\ pc = "finally") => pc' = "for" /\ idx' = idx
            /\ (i = idx /\ pc = "for" /\ i < Len(video_files)) =>
                   pc' = "capture" /\ idx' = i + 1

\* C3: the quit key ends only the video being processed: no further frame of
\* it is read or written, its handles are released, process_video returns
\* normally and the batch goes on: the for loop starts the video after it,
\* the quit key never aborts the batch, and a batch that ends without an
\* exception has processed every video of the list.
C3_QuitEndsOnlyThisVideo == []C3_State /\ [][C3_Step]_vars

\* The first video was ended by the quit key and the second was processed.
C3_Witness ==
    /\ pc = "done"
    /\ Len(vids) >= 2
    /\ vids[1].exit = "quit"
    /\ vids[2].exit \in {"range", "exhausted", "quit"}
    /\ vids[2].read >= 1

\* C4: the frames written for a video are never more than the frames read
\* from it so far, never more than the frames its stream delivers and never
\* more than the frame count its container reports.
C4_WrittenAtMostRead ==
    \A i \in DOMAIN vids :
        /\ vids[i].written <= vids[i].read
        /\ (i = idx /\ vids[i].cap = "open") =>
            /\ vids[i].read <= src.avail
            /\ vids[i].written <= src.avail
            /\ vids[i].written <= src.count
            /\ Len(out_video.frames) = vids[i].written

\* Every frame of a video was read and written.
C4_Witness ==
    /\ pc = "finally"
    /\ src.avail >= 2
    /\ src.count = src.avail
    /\ vids[idx].written = src.avail

\* C5: the frame about to be handed to the writer has the height and width of
\* the frame read in this iteration, every frame handed to the writer has the
\* height and width of the input video, and the writer was created with the
\* width and height of the input video.
C5_OutputHasSourceSize ==
    /\ pc = "write" =>
        /\ processed_frame.shape = <<frame.shape[1], frame.shape[2]>>
        /\ frame.shape = <<src.height, src.width, 3>>
    /\ \A k \in DOMAIN out_video.frames :
        out_video.frames[k] = <<src.height, src.width>>
    /\ (idx \in DOMAIN vids /\ vids[idx].writer = "open") =>
        out_video.size = <<src.width, src.height>>

\* A frame of a video that is not square was written, the model having worked
\* at another resolution.
C5_Witness ==
    /\ pc = "show"
    /\ src.width # src.height
    /\ Len(out_video.frames) >= 1
    /\ transform_image(frame).shape[3] # frame.shape[1]

\* A name ends in .mp4, .avi or .mov, whatever the case of its letters.
HasVideoExtension(f) ==
    /\ Len(f) >= 4
    /\ f[Len(f) - 3] = "."
    /\ \/ /\ f[Len(f) - 2] \in {"m", "M"}
          /\ f[Len(f) - 1] \in {"p", "P"}
          /\ f[Len(f)] = "4"
       \/ /\ f[Len(f) - 2] \in {"a", "A"}
          /\ f[Len(f) - 1] \in {"v", "V"}
          /\ f[Len(f)] \in {"i", "I"}
       \/ /\ f[Len(f) - 2] \in {"m", "M"}
          /\ f[Len(f) - 1] \in {"o", "O"}
          /\ f[Len(f)] \in {"v", "V"}

\* C6: the files processed are the listed files whose name ends in .mp4, .avi
\* or .mov in any case, in the order listed; the path opened for each is the
\* input folder joined with its name and its output path is the output folder
\* joined with 'processed_' and its unchanged name; a batch that ends without
\* an exception has processed every one of them, and nothing is opened or
\* written for a file with another extension.
C6_ExactlyTheVideoFiles ==
    pc # "listdir" =>
        /\ video_files = SelectSeq(listing, HasVideoExtension)
        /\ Len(vids) = Len(video_files)
        /\ \A i \in DOMAIN vids :
            /\ vids[i].path \in
                   {<<>>, <<"i", "n", "/">> \o video_files[i]}
            /\ vids[i].out_path \in
                   {<<>>, <<"o", "u", "t", "/", "p", "r", "o", "c", "e", "s",
                            "s", "e", "d", "_">> \o video_files[i]}
            /\ vids[i].cap # "none" => vids[i].path # <<>>
            /\ vids[i].writer # "none" => vids[i].out_path # <<>>
        /\ pc = "done" =>
            \A i \in DOMAIN vids :
                vids[i].cap = "released" /\ vids[i].out_path # <<>>
        /\ \A k \in DOMAIN listing :
            ~HasVideoExtension(listing[k]) =>
                \A i \in DOMAIN vids :
                    /\ vids[i].path # <<"i", "n", "/">> \o listing[k]
                    /\ vids[i].out_path #
                           <<"o", "u", "t", "/", "p", "r", "o", "c", "e", "s",
                             "s", "e", "d", "_">> \o listing[k]

\* A listing of an upper-case video name and a text file was processed.
C6_Witness ==
    /\ pc = "done"
    /\ listing = << <<"d", ".", "t", "x", "t">>, <<"B", ".", "A", "V", "I">> >>
    /\ vids[1].written >= 1
    /\ vids[1].out_path # <<>>

\* The values of the depth estimate are all equal.
IsConstant(d) == \A i, j \in DOMAIN d : d[i] = d[j]

C8_ResizedMultipleOf14 ==
    resized # NoSize =>
        /\ resized[1] % 14 = 0
        /\ resized[2] % 14 = 0
        /\ resized[1] > 0 /\ resized[2] > 0

\* A size was resized whose scaled height is no multiple of 14 by itself.
C8_Witness ==
    /\ resized # NoSize
    /\ sample[1] < sample[2]
    /\ (532 * sample[2]) % (14 * sample[1]) # 0
    /\ resized[2] > 532

\* C9: the loop over the frames is left only when a read yields no frame or
\* the quit key is pressed (or an error is raised); left without quit key and
\* without error, every frame the stream delivers has been read and written.
C9_LeavesOnlyOnNoFrameOrQuit ==
    pc = "finally" =>
        /\ vids[idx].exit \in {"exhausted", "quit", "error"}
        /\ vids[idx].exit \notin {"quit", "error"} =>
            /\ vids[idx].read = src.avail
            /\ vids[idx].written = src.avail

\* C10: at the head of every iteration the frames written are the frames
\* read; when the preview is shown and when the key is polled in the k-th
\* iteration, k frames were read and k written; a video ended by the quit key
\* has as many frames written as read.
C10_WrittenBeforeShownAndPolled ==
    /\ pc \in {"loop", "read"} => vids[idx].written = vids[idx].read
    /\ pc = "loop" => vids[idx].written = it
    /\ pc \in {"show", "poll"} =>
        /\ vids[idx].read = it
        /\ vids[idx].written = it
    /\ \A i \in DOMAIN vids :
        vids[i].exit = "quit" =>
            /\ vids[i].written = vids[i].read
            /\ vids[i].written >= 1
            /\ (i = idx /\ pc = "finally") => vids[i].written = it

\* The quit key was pressed during the second frame.
C10_Witness ==
    /\ pc = "finally"
    /\ vids[idx].exit = "quit"
    /\ it = 2
    /\ vids[idx].written = 2

====
